---------------------------- MODULE Spec2Model ----------------------------
(***************************************************************************)
(* A state-machine model of radioknop_tui.py: RadioApp.run (the genre      *)
(* list), RadioApp.run_station_menu (the station list), the player         *)
(* controller (play_stream, stop_player, update_player_status), fetch_data *)
(* and the parts of draw_menu that read or change state.                   *)
(*                                                                         *)
(* One action is one step of the program between two waits for input: the  *)
(* handling of one key (or of one input timeout) followed by the redraw of *)
(* the next loop iteration.  The environment has two actions of its own:   *)
(* the player subprocess ending by itself and the user interrupting the    *)
(* program; a resize of the terminal reaches the program as a key          *)
(* (KEY_RESIZE).                                                           *)
(*                                                                         *)
(* Python values: None is the string "None"; a missing dictionary key is   *)
(* NoName / NoUrl; a dictionary (the catalog) is the sequence of its       *)
(* items in insertion order.  Writes to the curses window are taken to     *)
(* succeed.                                                                *)
(***************************************************************************)
EXTENDS Integers, Sequences, FiniteSets, TLC

\* ---------------------------------------------------------------- bounds
MaxGenres == 3
MaxStations == 2

\* Terminal heights the window can take: 4 is below draw_menu's minimum of
\* 5 rows, 5 leaves one list row, 6 leaves two.
Heights == {4, 5, 6}

\* ------------------------------------------------------------ the values
None == "None"
NoName == "(no name)"
NoUrl == ""

\* The stream URLs and station names of the catalogs considered.
Urls == {"a", "b"}

\* An element of a genre's list: a JSON object (dict) with or without
\* "name" and "url", or any other JSON value (dict = FALSE).
Junk == [dict |-> FALSE, name |-> NoName, url |-> NoUrl]

Station(n, u) == [dict |-> TRUE, name |-> n, url |-> u]

StationEntries ==
    { Junk, Station(NoName, "a"), Station("X", "a"), Station("X", "b"),
      Station("Y", "a"), Station("Y", NoUrl) }

RECURSIVE SeqsUpTo(_, _)
SeqsUpTo(S, n) ==
    IF n = 0 THEN { <<>> }
    ELSE LET shorter == SeqsUpTo(S, n - 1)
         IN  shorter \cup { Append(s, x) : s \in { t \in shorter : Len(t) = n - 1 }, x \in S }

StationLists == SeqsUpTo(StationEntries, MaxStations)

\* Genre names in catalog order; the i-th genre of a catalog is named
\* GenreNames[i], or "error" when the catalog has a genre of that name.
GenreNames == <<"Rock", "Jazz", "Pop", "Folk", "Soul">>

Genre(n, isList, stations) == [name |-> n, isList |-> isList, stations |-> stations]

\* A catalog of n genres: the genre at position bad (if any) has a value
\* that is not a list, every other genre has the station list L; the
\* genre at position err (if any) is named "error".
CatalogOf(n, bad, err, L) ==
    [ i \in 1..n |->
        Genre(IF i = err THEN "error" ELSE GenreNames[i],
              i # bad,
              IF i # bad THEN L ELSE <<>>) ]

\* The station list of the catalogs of several genres.
SampleList == << Station("X", "a"), Station("Y", "a") >>

\* The catalogs considered: the empty one, those of one genre with any
\* value, and those of up to MaxGenres genres over SampleList.
Catalogs ==
    { CatalogOf(n, bad, err, L) :
        n \in 0..1, bad \in 0..1, err \in 0..1, L \in StationLists }
    \cup
    { CatalogOf(n, bad, err, SampleList) :
        n \in 2..MaxGenres, bad \in 0..MaxGenres, err \in 0..1 }

\* ------------------------------------------------------------- fetch_data
CACHE_DURATION == 24 * 60 * 60

\* Ages (seconds since the cache file was last written) around the limit.
Ages == {0, CACHE_DURATION - 1, CACHE_DURATION, CACHE_DURATION + 1}

\* What reading the cache file meets: it opens and parses ("ok"), open or
\* read raises IOError ("unreadable"), json.load raises JSONDecodeError
\* ("bad_json"), or the bytes are not UTF-8 and reading raises
\* UnicodeDecodeError ("undecodable").
CacheContents == {"ok", "unreadable", "bad_json", "undecodable"}

CacheFiles ==
    { [exists |-> FALSE, age |-> 0, content |-> "ok"] } \cup
    [exists : {TRUE}, age : Ages, content : CacheContents]

\* What the HTTP GET meets: a JSON body ("ok"), URLError, a body that is
\* not JSON, or any other exception.
NetOutcomes == {"ok", "url_error", "bad_json", "other_error"}

\* The dictionary {"error": <message>} that fetch_data returns on failure.
ErrorDict == << Genre("error", FALSE, <<>>) >>

\* Lines 121-142: the network branch.
FetchFromNetwork(net, catalog) ==
    [ raised |-> FALSE, get |-> net,
      value |-> IF net = "ok" THEN catalog ELSE ErrorDict ]

\* Lines 111-142.  `catalog` is what the cache file or the response body
\* decodes to when it decodes.  get = "none": no request was made.
FetchData(file, net, catalog) ==
    IF file.exists /\ file.age < CACHE_DURATION
    THEN CASE file.content = "ok" ->
                [raised |-> FALSE, get |-> "none", value |-> catalog]
           [] file.content \in {"unreadable", "bad_json"} ->
                FetchFromNetwork(net, catalog)
           [] OTHER ->
                \* UnicodeDecodeError is neither IOError nor JSONDecodeError
                [raised |-> TRUE, get |-> "none", value |-> <<>>]
    ELSE FetchFromNetwork(net, catalog)

Keys(d) == { d[i].name : i \in 1..Len(d) }

\* ------------------------------------------------------ player controller
\* The controller and the operating system's view of its subprocesses:
\*   player_process         the Popen handle (the URL it streams) or None
\*   current_station_name   the recorded station name or None
\*   alive                  the process behind the handle is running
\*   stray                  running players the application holds no handle to

\* Popen.terminate() then wait(timeout=1): still running afterwards iff the
\* process did not exit within the second.
AfterTerminate(alive, exits) == alive /\ ~exits

\* Popen.kill() after TimeoutExpired.
AfterKill(alive) == FALSE

\* stop_player without its last line, self.player_process = None.
StopPlayerKeepsHandle(p, exits) ==
    IF p.player_process # None
    THEN [p EXCEPT !.alive = FALSE]
    ELSE p

\* stop_player that clears the recorded station name on every call.
StopPlayerClearsName(p, exits) ==
    IF p.player_process # None
    THEN LET t == AfterTerminate(p.alive, exits)
             k == IF t THEN AfterKill(t) ELSE t
         IN  [p EXCEPT !.player_process = None,
                       !.current_station_name = None,
                       !.alive = FALSE,
                       !.stray = @ + (IF k THEN 1 ELSE 0)]
    ELSE [p EXCEPT !.current_station_name = None]

\* Lines 157-164.
StopPlayer(p, exits) ==
    IF p.player_process # None
    THEN LET t == AfterTerminate(p.alive, exits)
             k == IF t THEN AfterKill(t) ELSE t
         IN  [p EXCEPT !.player_process = None,
                       !.alive = FALSE,
                       !.stray = @ + (IF k THEN 1 ELSE 0)]
    ELSE p

\* Assigning self.player_process: a running process behind the old handle
\* is no longer reachable from the application.
SetHandle(p, handle, alive) ==
    [p EXCEPT !.player_process = handle,
              !.alive = alive,
              !.stray = @ + (IF p.player_process # None /\ p.alive THEN 1 ELSE 0)]

\* What subprocess.Popen(["mpv", ...]) meets: the process starts ("ok"),
\* FileNotFoundError ("not_found"), or another OSError ("os_error").
LaunchOutcomes == {"ok", "not_found", "os_error"}

\* play_stream without its call of stop_player.
PlayStreamNoStop(p, url, station_name, exits, launch) ==
    CASE launch = "ok" ->
           [raised |-> FALSE,
            player |-> [SetHandle(p, url, TRUE) EXCEPT !.current_station_name = station_name]]
      [] launch = "not_found" ->
           [raised |-> FALSE,
            player |-> [SetHandle(p, None, FALSE) EXCEPT !.current_station_name = None]]
      [] OTHER ->
           [raised |-> TRUE, player |-> p]

\* Lines 144-155.  raised: an exception other than FileNotFoundError left
\* play_stream.
PlayStream(p, url, station_name, exits, launch) ==
    LET q == StopPlayer(p, exits)
    IN  CASE launch = "ok" ->
               [raised |-> FALSE,
                player |-> [SetHandle(q, url, TRUE) EXCEPT !.current_station_name = station_name]]
          [] launch = "not_found" ->
               [raised |-> FALSE,
                player |-> [SetHandle(q, None, FALSE) EXCEPT !.current_station_name = None]]
          [] OTHER ->
               [raised |-> TRUE, player |-> q]

\* update_player_status that never drops the handle.
UpdatePlayerStatusNever(p) == p

\* Lines 166-168: poll() is not None iff the process has exited.
UpdatePlayerStatus(p) ==
    IF p.player_process # None /\ ~p.alive
    THEN [p EXCEPT !.player_process = None]
    ELSE p

NoStatus == [kind |-> "none", name |-> None]

\* Lines 170-176, on the controller as update_player_status left it.
GetPlayingInfo(p) ==
    IF p.player_process # None
    THEN [kind |-> "playing", name |-> p.current_station_name]
    ELSE IF p.current_station_name # None
         THEN [kind |-> "stopped", name |-> p.current_station_name]
         ELSE NoStatus

\* ------------------------------------------------------------- draw_menu
\* Line 192 (and 274, 345).
MaxItems(hh) == hh - 4

\* Line 182; the terminal is taken to be at least 20 columns wide.
TooSmall(hh) == hh < 5

\* Lines 178-251: what draw_menu does to the controller (get_playing_info
\* calls update_player_status) and the status line it leaves on screen.
DrawMenu(p, hh) ==
    IF TooSmall(hh)
    THEN [player |-> p, status |-> [kind |-> "too_small", name |-> None]]
    ELSE LET q == UpdatePlayerStatus(p)
         IN  [player |-> q, status |-> GetPlayingInfo(q)]

\* Line 194: has_scrollbar.
HasScrollbar(len, max_items) == len > max_items

\* Lines 222-223: scrollbar_height and scroll_range.
ScrollbarHeight(max_items) == max_items

ScrollRange(len, max_items) == len - max_items

\* Lines 225-226: max(1, int((max_items / len(items)) * scrollbar_height)).
\* int() of the non-negative float quotient is the integer quotient (the
\* two agree for every size up to 11 rows and 60 items).
ThumbSize(len, max_items) ==
    LET q == (max_items * ScrollbarHeight(max_items)) \div len
    IN  IF q > 1 THEN q ELSE 1

\* Lines 227-228: int((scroll_offset / scroll_range) * (scrollbar_height -
\* thumb_size)), computed when scroll_range > 0.
ThumbPos(scroll, len, max_items) ==
    (scroll * (ScrollbarHeight(max_items) - ThumbSize(len, max_items)))
        \div ScrollRange(len, max_items)

\* Lines 253-258: show_error clears the screen and writes the notice.
NoticeStatus == [kind |-> "notice", name |-> None]

\* --------------------------------------------------------- list movement
\* Lines 289-293 and 352-356: KEY_UP.
MoveUp(v) ==
    IF v.row > 0
    THEN [row |-> v.row - 1,
          scroll |-> IF v.row - 1 < v.scroll THEN v.row - 1 ELSE v.scroll]
    ELSE v

\* Lines 294-298 and 357-361: KEY_DOWN over `len` items, max_items rows.
MoveDown(v, len, max_items) ==
    IF v.row < len - 1
    THEN [row |-> v.row + 1,
          scroll |-> IF v.row + 1 >= v.scroll + max_items THEN v.scroll + 1 ELSE v.scroll]
    ELSE v

\* -------------------------------------------------------- station lists
\* The comprehension with s['name'] for s.get('name', 'Unknown').
RECURSIVE StationNamesNoDefault(_)
StationNamesNoDefault(stations) ==
    IF stations = <<>> THEN <<>>
    ELSE LET s == Head(stations)
             rest == StationNamesNoDefault(Tail(stations))
         IN  IF s.dict THEN <<s.name>> \o rest ELSE rest

\* Lines 263-264: the names of the elements that are dictionaries,
\* 'Unknown' for one without a name.
RECURSIVE StationNames(_)
StationNames(stations) ==
    IF stations = <<>> THEN <<>>
    ELSE LET s == Head(stations)
             rest == StationNames(Tail(stations))
         IN  IF s.dict
             THEN <<IF s.name = NoName THEN "Unknown" ELSE s.name>> \o rest
             ELSE rest

\* Lines 312-313: next((s for s in stations if s.get('name') == name), None).
\* found: the first element whose name is `name`; raised: an element that
\* is not a dictionary was met first (s.get raises AttributeError).
RECURSIVE FindStation(_, _)
FindStation(stations, name) ==
    IF stations = <<>> THEN [raised |-> FALSE, found |-> FALSE, station |-> Junk]
    ELSE LET s == Head(stations)
         IN  IF ~s.dict THEN [raised |-> TRUE, found |-> FALSE, station |-> Junk]
             ELSE IF s.name = name THEN [raised |-> FALSE, found |-> TRUE, station |-> s]
             ELSE FindStation(Tail(stations), name)


\* ----------------------------------------------------------------- state
VARIABLES
    pc,                    \* where the program waits (see Waiting, Ended)
    h,                     \* terminal height, as getmaxyx returns it
    input_timeout,         \* stdscr.timeout: -1 blocks, 100 is milliseconds
    status,                \* the status line left on screen by the last draw
    data,                  \* self.data, the catalog
    fetch_called,          \* fetch_data has been called in this run
    fetch_log,             \* the cache file and the GET as fetch_data met them
    fetched,               \* the value fetch_data returned, until run reads it
    run_current_row,       \* current_row of run (genre list)
    run_scroll_offset,     \* scroll_offset of run
    station_names,         \* station_names of run_station_menu
    current_row,           \* current_row of run_station_menu
    scroll_offset,         \* scroll_offset of run_station_menu
    player_process,        \* self.player_process
    current_station_name,  \* self.current_station_name
    proc_alive,            \* the process behind player_process is running
    stray,                 \* running players no handle refers to
    event                  \* what the last key handler did about playback

vars == << pc, h, input_timeout, status, data, fetch_called, fetch_log, fetched,
           run_current_row, run_scroll_offset, station_names, current_row,
           scroll_offset, player_process, current_station_name, proc_alive, stray,
           event >>

uiVars == << run_current_row, run_scroll_offset, station_names, current_row, scroll_offset >>
menuVars == << station_names, current_row, scroll_offset >>
fetchVars == << data, fetch_called, fetch_log, fetched >>
playerVars == << player_process, current_station_name, proc_alive, stray >>

\* The program has ended: run returned, an exception reached __main__
\* ("Critical Error" printed), or KeyboardInterrupt reached __main__.
Ended == {"exited", "crashed", "interrupted"}

\* show_error is waiting for a key.
Notices == {"err_mpv", "err_fetch", "err_invalid_genre", "err_no_stations", "err_stream"}

NoFetch == [cache |-> "n/a", get |-> "n/a"]

Player ==
    [player_process |-> player_process, current_station_name |-> current_station_name,
     alive |-> proc_alive, stray |-> stray]

SetPlayer(q) ==
    /\ player_process' = q.player_process
    /\ current_station_name' = q.current_station_name
    /\ proc_alive' = q.alive
    /\ stray' = q.stray

\* The draw_menu call that opens the next loop iteration.
Redraw(q, hh) ==
    /\ SetPlayer(DrawMenu(q, hh).player)
    /\ status' = DrawMenu(q, hh).status

\* The stations argument of run_station_menu: self.data[genres[current_row]].
Stations == data[run_current_row + 1].stations

\* Leaving run_station_menu: its locals are gone.
LeaveMenu ==
    /\ station_names' = <<>>
    /\ current_row' = 0
    /\ scroll_offset' = 0

\* The program ends (run returns or an exception unwinds it): the locals
\* of run and run_station_menu are gone and curses.wrapper restores the
\* terminal.
EndRun(how) ==
    /\ pc' = how
    /\ run_current_row' = 0
    /\ run_scroll_offset' = 0
    /\ LeaveMenu
    /\ status' = NoStatus

\* Lines 91-95 and curses' initial blocking input.
Init ==
    /\ pc = "start"
    /\ h \in Heights
    /\ input_timeout = -1
    /\ status = NoStatus
    /\ data = <<>>
    /\ fetch_called = FALSE
    /\ fetch_log = NoFetch
    /\ fetched = <<>>
    /\ run_current_row = 0
    /\ run_scroll_offset = 0
    /\ station_names = <<>>
    /\ current_row = 0
    /\ scroll_offset = 0
    /\ player_process = None
    /\ current_station_name = None
    /\ proc_alive = FALSE
    /\ stray = 0
    /\ event = "none"

\* ------------------------------------------------------------------ run
\* Lines 326-331 with check_dependencies (105-109).
RunCheckDependencies ==
    /\ pc = "start"
    /\ event' = "none"
    /\ \E found \in BOOLEAN :
         IF found
         THEN pc' = "deps_ok" /\ status' = status
         ELSE pc' = "err_mpv" /\ status' = NoticeStatus
    /\ UNCHANGED << h, input_timeout, fetchVars, uiVars, playerVars >>

\* Line 333: data = self.fetch_data().
RunFetchData ==
    /\ pc = "deps_ok"
    /\ event' = "none"
    /\ \E file \in CacheFiles, net \in NetOutcomes, catalog \in Catalogs :
         LET r == FetchData(file, net, catalog)
         IN  /\ fetch_called' = TRUE
             /\ fetch_log' = [cache |-> file, get |-> r.get]
             /\ fetched' = r.value
             /\ IF r.raised
                THEN EndRun("crashed")
                ELSE pc' = "fetched" /\ UNCHANGED << status, uiVars >>
    /\ UNCHANGED << h, input_timeout, data, playerVars >>

\* Lines 334-350: the error notice, or the first draw of the genre list.
RunShowGenres ==
    /\ pc = "fetched"
    /\ event' = "none"
    /\ fetch_log' = NoFetch
    /\ fetched' = <<>>
    /\ IF "error" \in Keys(fetched)
       THEN /\ pc' = "err_fetch"
            /\ status' = NoticeStatus
            /\ UNCHANGED << data, playerVars >>
       ELSE /\ pc' = "genres"
            /\ data' = fetched
            /\ Redraw(Player, h)
    /\ UNCHANGED << h, input_timeout, fetch_called, uiVars >>

\* Lines 352-356.
GenreUp ==
    /\ pc = "genres"
    /\ event' = "none"
    /\ LET v == MoveUp([row |-> run_current_row, scroll |-> run_scroll_offset])
       IN  run_current_row' = v.row /\ run_scroll_offset' = v.scroll
    /\ Redraw(Player, h)
    /\ UNCHANGED << pc, h, input_timeout, fetchVars, menuVars >>

\* Lines 357-361.
GenreDown ==
    /\ pc = "genres"
    /\ event' = "none"
    /\ LET v == MoveDown([row |-> run_current_row, scroll |-> run_scroll_offset],
                         Len(data), MaxItems(h))
       IN  run_current_row' = v.row /\ run_scroll_offset' = v.scroll
    /\ Redraw(Player, h)
    /\ UNCHANGED << pc, h, input_timeout, fetchVars, menuVars >>

\* Lines 362-363 and 376: q or Q.
GenreQuit ==
    /\ pc = "genres"
    /\ event' = "none"
    /\ \E exits \in BOOLEAN : SetPlayer(StopPlayer(Player, exits))
    /\ EndRun("exited")
    /\ UNCHANGED << h, input_timeout, fetchVars >>

\* Lines 364-374 and 260-281: Enter.  genres[current_row] raises
\* IndexError when the catalog has no genre.
GenreEnter ==
    /\ pc = "genres"
    /\ event' = "none"
    /\ IF Len(data) = 0
       THEN /\ EndRun("crashed")
            /\ UNCHANGED << input_timeout, playerVars >>
       ELSE LET genre == data[run_current_row + 1]
                names == StationNames(genre.stations)
            IN  /\ UNCHANGED << run_current_row, run_scroll_offset >>
                /\ IF ~genre.isList
                   THEN /\ pc' = "err_invalid_genre"
                        /\ status' = NoticeStatus
                        /\ UNCHANGED << input_timeout, menuVars, playerVars >>
                   ELSE IF names = <<>>
                   THEN /\ pc' = "err_no_stations"
                        /\ status' = NoticeStatus
                        /\ UNCHANGED << input_timeout, menuVars, playerVars >>
                   ELSE /\ pc' = "stations"
                        /\ station_names' = names
                        /\ current_row' = 0
                        /\ scroll_offset' = 0
                        /\ input_timeout' = 100
                        /\ Redraw(Player, h)
    /\ UNCHANGED << h, fetchVars >>

\* Any other key on the genre list, KEY_RESIZE among them: nothing is
\* handled, the loop reads the terminal size again and redraws.
GenreOtherKey ==
    /\ pc = "genres"
    /\ event' = "none"
    /\ \E hh \in Heights : h' = hh /\ Redraw(Player, hh)
    /\ UNCHANGED << pc, input_timeout, fetchVars, uiVars >>


\* ----------------------------------------------------- run_station_menu
\* event, an observer's note of what the last step did about playback.
\* A call of play_stream: "switched" when it replaced a running player.
LaunchEvent(p, launch) ==
    CASE launch = "not_found" -> "launch_failed"
      [] launch = "os_error" -> "launch_raised"
      [] OTHER -> IF p.player_process # None /\ p.alive THEN "switched" ELSE "started"

\* A key handler called stop_player while a handle was held.
StopEvent(p) == IF p.player_process # None THEN "stopped" ELSE "none"

\* An input timeout found that the process behind the handle had exited.
TickEvent(p) == IF p.player_process # None /\ ~p.alive THEN "exit_detected" ELSE "none"

\* Lines 285-287: getch timed out (-1).
StationTick ==
    /\ pc = "stations"
    /\ event' = TickEvent(Player)
    /\ input_timeout = 100
    /\ Redraw(UpdatePlayerStatus(Player), h)
    /\ UNCHANGED << pc, h, input_timeout, fetchVars, uiVars >>

\* Lines 289-293.
StationUp ==
    /\ pc = "stations"
    /\ event' = "none"
    /\ LET v == MoveUp([row |-> current_row, scroll |-> scroll_offset])
       IN  current_row' = v.row /\ scroll_offset' = v.scroll
    /\ Redraw(Player, h)
    /\ UNCHANGED << pc, h, input_timeout, fetchVars, run_current_row,
                    run_scroll_offset, station_names >>

\* Lines 294-298.
StationDown ==
    /\ pc = "stations"
    /\ event' = "none"
    /\ LET v == MoveDown([row |-> current_row, scroll |-> scroll_offset],
                         Len(station_names), MaxItems(h))
       IN  current_row' = v.row /\ scroll_offset' = v.scroll
    /\ Redraw(Player, h)
    /\ UNCHANGED << pc, h, input_timeout, fetchVars, run_current_row,
                    run_scroll_offset, station_names >>

\* b or B without line 300, the call of stop_player.
StationBackNoStop ==
    /\ pc = "stations"
    /\ event' = "none"
    /\ Redraw(Player, h)
    /\ input_timeout' = -1
    /\ LeaveMenu
    /\ pc' = "genres"
    /\ UNCHANGED << h, fetchVars, run_current_row, run_scroll_offset >>

\* Lines 299-301 and 323: b or B, back to the genre list.
StationBack ==
    /\ pc = "stations"
    /\ event' = StopEvent(Player)
    /\ \E exits \in BOOLEAN : Redraw(StopPlayer(Player, exits), h)
    /\ input_timeout' = -1
    /\ LeaveMenu
    /\ pc' = "genres"
    /\ UNCHANGED << h, fetchVars, run_current_row, run_scroll_offset >>

\* Lines 302-304, 370-371 and 376: q or Q.
StationQuit ==
    /\ pc = "stations"
    /\ event' = StopEvent(Player)
    /\ \E exits \in BOOLEAN :
         SetPlayer(StopPlayer(StopPlayer(Player, exits), exits))
    /\ EndRun("exited")
    /\ UNCHANGED << h, input_timeout, fetchVars >>

\* The toggle without its call of stop_player.
ToggleOffKeepsPlaying(p, selected_name, exits) ==
    [p EXCEPT !.current_station_name = selected_name]

\* Lines 308-310: Enter on the row named like the playing station.
ToggleOff(p, selected_name, exits) ==
    [StopPlayer(p, exits) EXCEPT !.current_station_name = selected_name]

\* Lines 305-321: Enter.
StationEnter ==
    /\ pc = "stations"
    /\ LET selected_name == station_names[current_row + 1]
       IN  IF current_station_name = selected_name /\ player_process # None
           THEN /\ \E exits \in BOOLEAN :
                     Redraw(ToggleOff(Player, selected_name, exits), h)
                /\ event' = "toggled_off"
                /\ UNCHANGED << pc, input_timeout, uiVars >>
           ELSE LET f == FindStation(Stations, selected_name)
                IN  IF f.raised
                    THEN /\ EndRun("crashed")
                         /\ event' = "lookup_raised"
                         /\ UNCHANGED << input_timeout, playerVars >>
                    ELSE IF f.found /\ f.station.url # NoUrl
                    THEN \E exits \in BOOLEAN, launch \in LaunchOutcomes :
                           LET r == PlayStream(Player, f.station.url, selected_name,
                                               exits, launch)
                           IN  /\ event' = LaunchEvent(Player, launch)
                               /\ IF r.raised
                                  THEN /\ EndRun("crashed")
                                       /\ SetPlayer(r.player)
                                       /\ UNCHANGED input_timeout
                                  ELSE /\ Redraw(r.player, h)
                                       /\ UNCHANGED << pc, input_timeout, uiVars >>
                    ELSE /\ pc' = "err_stream"
                         /\ event' = "stream_error"
                         /\ input_timeout' = -1
                         /\ status' = NoticeStatus
                         /\ UNCHANGED << uiVars, playerVars >>
    /\ UNCHANGED << h, fetchVars >>

\* Any other key on the station list, KEY_RESIZE among them.
StationOtherKey ==
    /\ pc = "stations"
    /\ event' = "none"
    /\ \E hh \in Heights : h' = hh /\ Redraw(Player, hh)
    /\ UNCHANGED << pc, input_timeout, fetchVars, uiVars >>

\* ------------------------------------------------------------ show_error
\* run without the return of line 327: after the missing-player notice it
\* goes on to fetch the catalog.
DismissFatalGoesOn ==
    /\ pc \in {"err_mpv", "err_fetch"}
    /\ event' = "none"
    /\ IF pc = "err_mpv"
       THEN pc' = "deps_ok" /\ UNCHANGED << status, uiVars >>
       ELSE EndRun("exited")
    /\ \E hh \in Heights : h' = hh
    /\ UNCHANGED << input_timeout, fetchVars, playerVars >>

\* Line 258: any key ends the notice; the terminal may have been resized
\* meanwhile.  Lines 107-108 and 335-336: run returns.
DismissFatal ==
    /\ pc \in {"err_mpv", "err_fetch"}
    /\ event' = "none"
    /\ EndRun("exited")
    /\ \E hh \in Heights : h' = hh
    /\ UNCHANGED << input_timeout, fetchVars, playerVars >>

\* The return from the notice with run's loop started over: the selection
\* back on the first genre.
DismissGenreNoticeResets ==
    /\ pc \in {"err_invalid_genre", "err_no_stations"}
    /\ event' = "none"
    /\ pc' = "genres"
    /\ run_current_row' = 0
    /\ run_scroll_offset' = 0
    /\ \E hh \in Heights : h' = hh /\ Redraw(Player, hh)
    /\ UNCHANGED << input_timeout, fetchVars, menuVars >>

\* Lines 267-268 and 373-374: back in run's loop.
DismissGenreNotice ==
    /\ pc \in {"err_invalid_genre", "err_no_stations"}
    /\ event' = "none"
    /\ pc' = "genres"
    /\ \E hh \in Heights : h' = hh /\ Redraw(Player, hh)
    /\ UNCHANGED << input_timeout, fetchVars, uiVars >>

\* The return from the stream-error notice without line 321,
\* self.stdscr.timeout(100).
DismissStreamErrorKeepsBlocking ==
    /\ pc = "err_stream"
    /\ event' = "none"
    /\ pc' = "stations"
    /\ input_timeout' = -1
    /\ \E hh \in Heights : h' = hh /\ Redraw(Player, hh)
    /\ UNCHANGED << fetchVars, uiVars >>

\* Lines 319-321: back in run_station_menu's loop.
DismissStreamError ==
    /\ pc = "err_stream"
    /\ event' = "none"
    /\ pc' = "stations"
    /\ input_timeout' = 100
    /\ \E hh \in Heights : h' = hh /\ Redraw(Player, hh)
    /\ UNCHANGED << fetchVars, uiVars >>

\* ----------------------------------------------------------- environment
\* The player subprocess ends by itself (the stream ended, mpv crashed).
ProcessExit ==
    /\ pc \notin Ended
    /\ event' = event
    /\ proc_alive
    /\ proc_alive' = FALSE
    /\ UNCHANGED << pc, h, input_timeout, status, fetchVars, uiVars,
                    player_process, current_station_name, stray >>

\* Ctrl-C: KeyboardInterrupt leaves curses.wrapper and is passed over at
\* lines 387-388.
Interrupt ==
    /\ pc \notin Ended
    /\ event' = event
    /\ EndRun("interrupted")
    /\ UNCHANGED << h, input_timeout, fetchVars, playerVars >>

\* Lines 384-390: the exit status of the process for each way the program
\* ends.  run returned: the script runs off its end.  KeyboardInterrupt:
\* passed over, then the same.  Any other exception: 'Critical Error' is
\* printed, then the same; nothing calls sys.exit or raises again.
ExitStatus(how) ==
    CASE how = "exited" -> 0
      [] how = "interrupted" -> 0
      [] how = "crashed" -> 0

Next ==
    \/ RunCheckDependencies
    \/ RunFetchData
    \/ RunShowGenres
    \/ GenreUp
    \/ GenreDown
    \/ GenreQuit
    \/ GenreEnter
    \/ GenreOtherKey
    \/ StationTick
    \/ StationUp
    \/ StationDown
    \/ StationBack
    \/ StationQuit
    \/ StationEnter
    \/ StationOtherKey
    \/ DismissFatal
    \/ DismissGenreNotice
    \/ DismissStreamError
    \/ ProcessExit
    \/ Interrupt

Spec == Init /\ [][Next]_vars

\* stdscr.timeout(100): while the station list waits and no key comes,
\* getch returns -1 after 100 ms.
LiveSpec == Spec /\ WF_vars(StationTick)


\* ================================================================ claims
\* Running players launched by the application.
RunningPlayers == stray + (IF proc_alive THEN 1 ELSE 0)

\* The row's station: station_names holds one name per element that is a
\* dictionary, so row i stands for the i-th such element.
IsDict(s) == s.dict

RowStation == SelectSeq(Stations, IsDict)[current_row + 1]

\* C1: in every reachable state at most one player subprocess launched by
\* the application is running; play_stream launches only after stop_player
\* has ended the one before.
C1_AtMostOnePlayer == RunningPlayers <= 1

\* C1 witness: play_stream replaced a running player and exactly the new
\* one runs.
C1_Witness ==
    /\ pc = "stations"
    /\ event = "switched"
    /\ proc_alive
    /\ RunningPlayers = 1

\* The selected row's station is the one being played.
RowIsPlaying ==
    /\ player_process # None
    /\ player_process = RowStation.url
    /\ current_station_name = station_names[current_row + 1]

\* Every element of the genre's list is a dictionary with a name.
WellFormed(stations) ==
    \A i \in 1..Len(stations) : stations[i].dict /\ stations[i].name # NoName

\* C2 (as claimed): Enter on a row whose station has a URL and is not the
\* one playing leaves exactly one running player, streaming that row's
\* URL, on the station list.  Stated for lists whose elements all are
\* named dictionaries, drawn in a terminal large enough, and for launches
\* the system does not refuse.
C2_EnterPlaysSelectedRow ==
    [][ ( /\ StationEnter
          /\ WellFormed(Stations)
          /\ ~TooSmall(h)
          /\ RowStation.url # NoUrl
          /\ ~RowIsPlaying
          /\ event' \notin {"launch_failed", "launch_raised"} )
        => ( /\ pc' = "stations"
             /\ player_process' = RowStation.url
             /\ proc_alive'
             /\ RunningPlayers' = 1 ) ]_vars

\* C3: Enter on the row of the station that is playing leaves playback
\* idle, no player running, and the station list still on screen.
C3_ToggleOff ==
    [][ ( /\ StationEnter
          /\ player_process # None
          /\ current_station_name = station_names[current_row + 1] )
        => ( /\ pc' = "stations"
             /\ player_process' = None
             /\ RunningPlayers' = 0
             /\ status'.kind # "playing" ) ]_vars

\* C3 witness: the toggle has just stopped the playing station.
C3_Witness ==
    /\ pc = "stations"
    /\ event = "toggled_off"
    /\ player_process = None
    /\ current_station_name = station_names[current_row + 1]
    /\ RunningPlayers = 0

\* C4 (as claimed): however the program ends, no player it launched is
\* left running.
C4_NoPlayerLeftRunning == pc \in Ended => RunningPlayers = 0


\* A key handler whose only call into the controller is stop_player:
\* B and Q on the station list, Q on the genre list.
StopStep == StationBack \/ StationQuit \/ GenreQuit

\* C5 (as claimed): after stop_player returns, player_process is None and
\* current_station_name is None.
C5_StopClearsStation ==
    [][ StopStep => (player_process' = None /\ current_station_name' = None) ]_vars

\* C5 (amended): after stop_player returns, player_process is None and no
\* player runs; current_station_name is what it was before the call.
C5_StopKeepsStationName ==
    [][ StopStep
        => ( /\ player_process' = None
             /\ RunningPlayers' = 0
             /\ current_station_name' = current_station_name ) ]_vars

\* C5 witness: stop_player has stopped a held player and the station name
\* is still recorded.
C5_Witness ==
    /\ event = "stopped"
    /\ player_process = None
    /\ current_station_name # None
    /\ RunningPlayers = 0

\* C6 (as claimed): on both list screens (the terminal being large enough
\* to draw them) the selected index addresses an item of the displayed
\* list, whatever the catalog and the keys pressed.
C6_SelectedIndexInRange ==
    /\ (pc = "genres" /\ ~TooSmall(h))
         => (0 <= run_current_row /\ run_current_row < Len(data))
    /\ (pc = "stations" /\ ~TooSmall(h))
         => (0 <= current_row /\ current_row < Len(station_names))

\* C7 (as claimed): at every render of a list (the terminal being large
\* enough for one), scrollOffset <= selectedIndex < scrollOffset +
\* visibleRows, visibleRows being the terminal height minus 4.
C7_SelectionVisible ==
    /\ (pc = "genres" /\ ~TooSmall(h) /\ Len(data) > 0)
         => ( /\ run_scroll_offset <= run_current_row
              /\ run_current_row < run_scroll_offset + MaxItems(h) )
    /\ (pc = "stations" /\ ~TooSmall(h))
         => ( /\ scroll_offset <= current_row
              /\ current_row < scroll_offset + MaxItems(h) )

\* C8: while the station list is shown, a player that has exited by itself
\* leads to the controller being idle and the status line no longer
\* showing 'Playing', by the input timeout alone; unless a key has meanwhile
\* left the station list or has had play_stream start another player
\* (which calls stop_player).
C8_ExitDetected ==
    (pc = "stations" /\ player_process # None /\ ~proc_alive)
      ~> ( \/ (player_process = None /\ status.kind # "playing")
           \/ pc # "stations"
           \/ (player_process # None /\ proc_alive) )

\* C8 witness: an input timeout has found the player gone.
C8_Witness ==
    /\ pc = "stations"
    /\ event = "exit_detected"
    /\ player_process = None
    /\ status.kind = "stopped"

\* The cache file fetch_data met is present, younger than 24 hours,
\* readable and parseable.
FreshCache(file) ==
    file.exists /\ file.age < 24 * 60 * 60 /\ file.content = "ok"

\* C9 (as claimed): fetch_data makes no request when the cache file is
\* fresh and good, and in every other case makes the request.
C9_CacheOrNetwork ==
    fetch_log # NoFetch
      => IF FreshCache(fetch_log.cache)
         THEN fetch_log.get = "none"
         ELSE fetch_log.get # "none"

\* The name fields of all elements of a list, in order.
NameFields(stations) == [i \in 1..Len(stations) |-> stations[i].name]

\* The genre under the selection of the genre list.
SelectedGenre == data[run_current_row + 1]

\* Enter on a genre whose value is a non-empty list.
EnterOnList ==
    /\ GenreEnter
    /\ Len(data) > 0
    /\ SelectedGenre.isList
    /\ SelectedGenre.stations # <<>>

\* C10 (as claimed): Enter on a genre whose value is a non-empty list
\* leads to the station list, whose entries are the name fields of the
\* list's elements, in order and in number.
C10_EntriesAreNameFields ==
    [][ EnterOnList
        => ( /\ pc' = "stations"
             /\ station_names' = NameFields(SelectedGenre.stations) ) ]_vars

\* The labels of the elements that are dictionaries: the name, or
\* 'Unknown' where there is none.
Labels(stations) ==
    LET d == SelectSeq(stations, IsDict)
    IN  [i \in 1..Len(d) |-> IF d[i].name = NoName THEN "Unknown" ELSE d[i].name]

\* C10 (amended): Enter on a genre whose value is a non-empty list leads
\* to the station list when an element is a dictionary, its entries being
\* the names of the elements that are dictionaries ('Unknown' for one
\* without a name), in order, the first one selected; when no element is
\* a dictionary it leads to the no-stations notice.
C10_EntriesAreLabels ==
    [][ EnterOnList
        => IF Labels(SelectedGenre.stations) # <<>>
           THEN /\ pc' = "stations"
                /\ station_names' = Labels(SelectedGenre.stations)
                /\ current_row' = 0
                /\ scroll_offset' = 0
           ELSE pc' = "err_no_stations" ]_vars

\* C10 witness: the station list is shown for a list with an element that
\* is no dictionary and one without a name.
C10_Witness ==
    /\ pc = "stations"
    /\ Len(station_names) < Len(Stations)
    /\ \E i \in 1..Len(station_names) : station_names[i] = "Unknown"

\* C11: Enter on a genre whose value is not a list shows the invalid-genre
\* notice with the catalog, the selection, the scroll offset and the
\* playback state as they were; the key that ends the notice leads back
\* to the genre list, again with all of them as they were, and the station
\* list is not entered on the way.
C11_InvalidGenreNotice ==
    [][ /\ ( GenreEnter /\ Len(data) > 0 /\ ~SelectedGenre.isList )
            => ( /\ pc' = "err_invalid_genre"
                 /\ status' = NoticeStatus
                 /\ UNCHANGED << data, run_current_row, run_scroll_offset,
                                 input_timeout, playerVars >> )
        /\ pc = "err_invalid_genre"
            => ( /\ pc' \in {"err_invalid_genre", "genres", "interrupted"}
                 /\ UNCHANGED << data, input_timeout, playerVars >>
                 /\ pc' = "genres"
                      => ( /\ UNCHANGED << run_current_row, run_scroll_offset >>
                           /\ station_names' = <<>> ) ) ]_vars

\* C11 witness: the notice is up for the second genre of a catalog, after
\* a station of the first genre had been played and stopped.
C11_Witness ==
    /\ pc = "err_invalid_genre"
    /\ run_current_row = 1
    /\ ~SelectedGenre.isList
    /\ current_station_name # None
    /\ player_process = None

\* C12 (as claimed): Enter on a row whose station has no URL shows the
\* stream-error notice over the station list, launches no process and
\* leaves the playback state as it was; the program does not crash.
\* Stated for lists whose elements all are named dictionaries, drawn in a
\* terminal large enough.
C12_NoUrlShowsStreamError ==
    [][ ( /\ StationEnter
          /\ WellFormed(Stations)
          /\ ~TooSmall(h)
          /\ RowStation.url = NoUrl )
        => ( /\ pc' = "err_stream"
             /\ status' = NoticeStatus
             /\ UNCHANGED << playerVars, uiVars >> ) ]_vars

\* C13: when the player binary is not found at startup, the missing-player
\* notice is shown with fetch_data not called (no cache read, no GET), the
\* only steps that follow end the program, still with fetch_data not
\* called, and an ended program takes no further step.
C13_NoFetchWithoutPlayer ==
    [][ /\ ( RunCheckDependencies /\ pc' # "deps_ok" )
            => ( pc' = "err_mpv" /\ status' = NoticeStatus )
        /\ pc = "err_mpv"
            => ( /\ ~fetch_called
                 /\ fetch_log = NoFetch
                 /\ pc' \in {"err_mpv", "exited", "interrupted"}
                 /\ UNCHANGED fetchVars )
        /\ pc \in Ended => UNCHANGED vars ]_vars

\* C13 witness: the program has exited with fetch_data never called,
\* which only the missing-player notice leads to.
C13_Witness ==
    /\ pc = "exited"
    /\ ~fetch_called
    /\ data = <<>>

\* C14 (as claimed): when the launch of the player fails in play_stream,
\* be it that the binary is not found or that the system refuses the
\* launch otherwise, the program goes on showing the station list with
\* the controller idle: player_process None and no station recorded.
C14_LaunchFailureAbsorbed ==
    [][ ( StationEnter /\ event' \in {"launch_failed", "launch_raised"} )
        => ( /\ pc' = "stations"
             /\ player_process' = None
             /\ current_station_name' = None
             /\ status'.kind \in {"none", "too_small"} ) ]_vars

\* C15 (as claimed): the exit status of the process is 0 when the program
\* was quit normally and is not 0 when an uncaught failure ended it.
C15_ExitStatusTellsFailure ==
    /\ pc = "exited" => ExitStatus(pc) = 0
    /\ pc = "crashed" => ExitStatus(pc) # 0

\* C16: a key whose handler calls stop_player while no handle is held (B
\* or Q) leaves the whole playback state as it was: handle, recorded
\* name and the processes; and Q on the station list, which calls
\* stop_player twice in a row, leaves the controller as one call does.
C16_StopWhenIdleIsNoOp ==
    [][ /\ ( StopStep /\ player_process = None ) => UNCHANGED playerVars
        /\ StationQuit
            => ( /\ \E exits \in BOOLEAN : Player' = StopPlayer(Player, exits)
                 /\ \A exits \in BOOLEAN : StopPlayer(Player', exits) = Player' ) ]_vars

\* C16 witness: Q on the station list while a station was playing: the
\* first stop_player ended it, the second found the controller idle.
C16_Witness ==
    /\ pc = "exited"
    /\ event = "stopped"
    /\ player_process = None
    /\ current_station_name # None
    /\ RunningPlayers = 0
    /\ StopPlayer(Player, TRUE) = Player

\* The program is waiting for a key: in getch of one of the two lists or
\* of show_error.
Waiting == {"genres", "stations"} \cup Notices

\* C17 (as claimed): the program waits for a key without a timeout only
\* when playback is idle; while a player is held, every wait has the 100 ms
\* timeout, the waits of notices shown from the station list included.
C17_BlockingOnlyWhenIdle ==
    (pc \in Waiting /\ input_timeout = -1) => player_process = None

\* C17 (amended): the station list always waits with the 100 ms timeout;
\* the genre list and every notice wait without a timeout.  Playback is
\* idle at every wait without a timeout except the one of the stream-error
\* notice, which is shown from the station list and blocks while a player
\* may be running.
C17_TimeoutByScreen ==
    /\ pc = "stations" => input_timeout = 100
    /\ pc \in Waiting \ {"stations"} => input_timeout = -1
    /\ (pc \in Waiting /\ input_timeout = -1 /\ pc # "err_stream")
         => (player_process = None /\ RunningPlayers = 0)

\* C17 witness: the stream-error notice waits without a timeout while the
\* player started before is running.
C17_Witness ==
    /\ pc = "err_stream"
    /\ input_timeout = -1
    /\ player_process # None
    /\ proc_alive

\* The thumb of the scrollbar drawn for `len` items at offset `scroll` in
\* max_items rows lies inside the track.
ThumbInsideTrack(scroll, len, max_items) ==
    /\ ThumbSize(len, max_items) >= 1
    /\ ThumbPos(scroll, len, max_items) >= 0
    /\ ThumbPos(scroll, len, max_items) + ThumbSize(len, max_items)
         <= ScrollbarHeight(max_items)
    /\ scroll <= len - max_items

\* C18 (as claimed): whenever a list is drawn with its scrollbar (more
\* items than rows), the thumb lies inside the track: its size is at
\* least 1, its position at least 0, position plus size at most the
\* track height, and the scroll offset at most item count minus rows.
C18_ThumbInsideTrack ==
    /\ (pc = "genres" /\ ~TooSmall(h) /\ HasScrollbar(Len(data), MaxItems(h)))
         => ThumbInsideTrack(run_scroll_offset, Len(data), MaxItems(h))
    /\ (pc = "stations" /\ ~TooSmall(h)
           /\ HasScrollbar(Len(station_names), MaxItems(h)))
         => ThumbInsideTrack(scroll_offset, Len(station_names), MaxItems(h))

\* C19: whenever the genre list waits for a key, playback is idle: no
\* handle is held and no player runs.  While the program runs, a handle is
\* held only on the station list or in the stream-error notice shown from
\* it; B, Q and the no-stations notice lead away from the station menu
\* with the player stopped or never started.
C19_GenreListIsIdle ==
    /\ pc = "genres" => (player_process = None /\ RunningPlayers = 0)
    /\ (pc \notin Ended /\ player_process # None) => pc \in {"stations", "err_stream"}
    /\ pc = "err_no_stations" => RunningPlayers = 0

\* C19 witness: B on the station list has stopped the playing station
\* and the genre list waits.
C19_Witness ==
    /\ pc = "genres"
    /\ event = "stopped"
    /\ player_process = None
    /\ ~proc_alive
    /\ status.kind = "stopped"

\* fetch_data obtained a catalog: from the fresh cache file without a
\* request, or from the response to the GET.
Retrieved == fetch_log.get \in {"none", "ok"}

\* C20 (as claimed): after fetch_data has returned, the fatal
\* catalog-error notice is shown if and only if the retrieval failed;
\* every catalog that was obtained, whatever its genres are named, leads
\* to the genre list over all of its genres.
C20_ErrorScreenIffFetchFailed ==
    [][ RunShowGenres
        => IF Retrieved
           THEN pc' = "genres" /\ data' = fetched
           ELSE pc' = "err_fetch" /\ status' = NoticeStatus ]_vars

==========================================================================
